---- MODULE Spec2Model ----
(***************************************************************************)
(* A model of jinja_cli/__main__.py: one run of main().                    *)
(*                                                                         *)
(* The state is the position of the run in main()/load_data(), the local   *)
(* variables of load_data (fname, fmt, defines, data), the standard input  *)
(* stream, the data stream `fin`, the output stream `fout`, and the        *)
(* exception in flight.  Strings on which the code does suffix or prefix   *)
(* tests (file names, format names) are sequences of one-character         *)
(* strings, so that endswith / startswith / partition are computed.        *)
(***************************************************************************)
EXTENDS Naturals, Sequences, FiniteSets, TLC

VARIABLES
    pc,         \* position of the run
    args,       \* the parsed command line (line 295)
    stdin,      \* sys.stdin: [pos: "start" | "eof", closed: BOOLEAN]
    template,   \* "none" | "loaded"
    fname,      \* load_data parameter
    fmt,        \* load_data parameter, reassigned by the detection
    defines,    \* load_data parameter
    fin,        \* the data stream: [src, state, acquired]
    call,       \* the parser invocation made by load_data, or NoCall
    data,       \* load_data local `data`
    context,    \* the value load_data returned, or NoValue
    exc,        \* the exception in flight, or NoExc
    rendered,   \* result of template.render, or NoText
    fout        \* the output stream: [state, writes]

vars == <<pc, args, stdin, template, fname, fmt, defines, fin, call, data,
          context, exc, rendered, fout>>

(***************************************************************************)
(* Bounds of the model.                                                    *)
(***************************************************************************)
\* longest list of -D key value pairs
MaxDefines == 2
\* most rows after the header row in a tabular data file
MaxRows == 1

(***************************************************************************)
(* Strings as character sequences.                                         *)
(***************************************************************************)
None == <<"None">>              \* Python's None: no character sequence
Dash == <<"-">>

S_ini  == <<".", "i", "n", "i">>
S_json == <<".", "j", "s", "o", "n">>
S_xml  == <<".", "x", "m", "l">>
S_yaml == <<".", "y", "a", "m", "l">>
S_tsv  == <<".", "t", "s", "v">>
S_csv  == <<".", "c", "s", "v">>

F_ini  == <<"i", "n", "i">>
F_json == <<"j", "s", "o", "n">>
F_xml  == <<"x", "m", "l">>
F_yaml == <<"y", "a", "m", "l">>
F_tsv  == <<"t", "s", "v">>
F_csv  == <<"c", "s", "v">>
P_csv  == <<"c", "s", "v", ".">>

\* str.endswith
EndsWith(s, x) ==
    /\ Len(s) >= Len(x)
    /\ SubSeq(s, Len(s) - Len(x) + 1, Len(s)) = x

\* str.startswith
StartsWith(s, p) ==
    /\ Len(s) >= Len(p)
    /\ SubSeq(s, 1, Len(p)) = p

\* variant of PartitionTail: the text after the last occurrence of sep
\* (rpartition)
PartitionTailLast(s, sep) ==
    IF \E i \in 1..Len(s) : s[i] = sep
    THEN LET i == CHOOSE j \in 1..Len(s) :
                    /\ s[j] = sep
                    /\ \A k \in (j + 1)..Len(s) : s[k] # sep
         IN  SubSeq(s, i + 1, Len(s))
    ELSE <<>>

\* s.partition(sep)[-1] for a one-character sep: the text after the first
\* occurrence of sep, the empty string when sep does not occur
PartitionTail(s, sep) ==
    IF \E i \in 1..Len(s) : s[i] = sep
    THEN LET i == CHOOSE j \in 1..Len(s) :
                    /\ s[j] = sep
                    /\ \A k \in 1..(j - 1) : s[k] # sep
         IN  SubSeq(s, i + 1, Len(s))
    ELSE <<>>

(***************************************************************************)
(* Value trees.  A tag tells a mapping from a sequence: in TLA+ the empty  *)
(* sequence and the empty function are the same value, in Python [] and {} *)
(* are not.                                                                *)
(***************************************************************************)
VNull     == [tag |-> "null", val |-> <<>>]
VStr(s)   == [tag |-> "str", val |-> s]
VSeq(xs)  == [tag |-> "seq", val |-> xs]
VMap(f)   == [tag |-> "map", val |-> f]
EmptyDict == VMap(<<>>)
NoValue   == [tag |-> "unset", val |-> <<>>]
NoText    == [tag |-> "unset", val |-> <<>>]

(***************************************************************************)
(* Exceptions: the class, the message template and the value formatted     *)
(* into the message (None when there is none).                             *)
(***************************************************************************)
NoExc == [type |-> "none", msg |-> "", arg |-> None]
Exc(type, msg, arg) == [type |-> type, msg |-> msg, arg |-> arg]

Raise(e)  == [raised |-> TRUE, exc |-> e, value |-> NoValue]
Return(v) == [raised |-> FALSE, exc |-> NoExc, value |-> v]

(***************************************************************************)
(* Names bound at module level: the imports of lines 7-21, `prog` and the  *)
(* functions the module defines.  A global name outside this set raises    *)
(* NameError when it is evaluated.                                         *)
(***************************************************************************)
GlobalNames ==
    {"DictLoader", "Environment", "FileSystemLoader", "Template", "basename",
     "dirname", "argparse", "argparse_ext", "configparser", "json", "logging",
     "os", "sys", "xmltodict", "yaml", "prog", "load_data_ini",
     "load_data_json", "load_data_xml", "load_data_yaml", "load_data_dsv",
     "load_data", "parse_args", "main"}

\* the first name of `names` that is bound neither locally nor globally,
\* "" when all are bound
FirstUnbound(names, locals) ==
    LET bad == {i \in 1..Len(names) : names[i] \notin GlobalNames \cup locals}
    IN  IF bad = {} THEN ""
        ELSE names[CHOOSE i \in bad : \A j \in bad : i <= j]

NameError(name) == Exc("NameError", "name is not defined", <<name>>)

(***************************************************************************)
(* What a data stream holds.  The text itself is not modelled: a content   *)
(* is what the library parsers make of it (value, rows) or why they fail   *)
(* (fault).  An exhausted stream holds EmptyContent.                       *)
(***************************************************************************)
EmptyContent == [kind |-> "empty", fault |-> "none", value |-> VNull, rows |-> <<>>]
Text(fault, value, rows) ==
    [kind |-> "text", fault |-> fault, value |-> value, rows |-> rows]

\* what a reader sees of a stream at position pos
Remaining(pos, content) == IF pos = "eof" THEN EmptyContent ELSE content

\* the exception a library parser raises on a faulty content
ParserFault(c, errtype) ==
    IF c.fault = "io" THEN Exc("OSError", "read failed", None)
    ELSE Exc(errtype, "malformed input", None)

(***************************************************************************)
(* The format parsers.  Each takes what its stream holds and returns or    *)
(* raises.                                                                 *)
(***************************************************************************)
\* load_data_ini: configparser reads any text without sections as {}; the
\* result is always a dict of sections
load_data_ini(c) ==
    IF c.kind = "empty" THEN Return(EmptyDict)
    ELSE IF c.fault # "none" \/ c.value.tag # "map"
         THEN Raise(ParserFault(c, "configparser.Error"))
         ELSE Return(c.value)

\* load_data_json: json.load; the empty text is not a JSON document
load_data_json(c) ==
    IF c.kind = "empty" \/ c.fault # "none"
    THEN Raise(ParserFault(c, "json.JSONDecodeError"))
    ELSE Return(c.value)

\* load_data_xml: xmltodict.parse(fin.read()); a document is one element,
\* so the result is always a dict and the empty text is no document
load_data_xml(c) ==
    IF c.kind = "empty" \/ c.fault # "none" \/ c.value.tag # "map"
    THEN Raise(ParserFault(c, "xml.parsers.expat.ExpatError"))
    ELSE Return(c.value)

\* load_data_yaml: yaml.safe_load; the empty text loads as None
load_data_yaml(c) ==
    IF c.kind = "empty" THEN Return(VNull)
    ELSE IF c.fault # "none"
         THEN Raise(ParserFault(c, "yaml.YAMLError"))
         ELSE Return(c.value)

\* csv.DictReader: the first row names the fields, each later row becomes
\* a mapping from field name to that row's string
DictRows(rows) ==
    IF rows = <<>> THEN VSeq(<<>>)
    ELSE VSeq([i \in 1..(Len(rows) - 1) |->
                 VMap([k \in {rows[1][j] : j \in 1..Len(rows[1])} |->
                        VStr(rows[i + 1][CHOOSE j \in 1..Len(rows[1]) :
                                            /\ rows[1][j] = k
                                            /\ \A j2 \in 1..Len(rows[1]) :
                                                 rows[1][j2] = k => j2 <= j])])])

\* csv.reader: every row, the first included, is a sequence of strings
PlainRows(rows) ==
    VSeq([i \in 1..Len(rows) |-> VSeq([j \in 1..Len(rows[i]) |-> VStr(rows[i][j])])])

\* the dialects csv knows once lines 124-125 have run
RegisteredDialects ==
    {F_tsv, F_csv, <<"e", "x", "c", "e", "l">>, <<"u", "n", "i", "x">>}

\* the names load_data_dsv evaluates, in the order it evaluates them:
\* csv (line 120), dialect_args (line 124), dialect_options (line 128)
DsvNames == <<"csv", "dialect_args", "dialect_options">>
DsvLocals == {"fin", "dialect", "has_headers", "default_dialect_args",
              "cls_reader", "reader"}

load_data_dsv(c, dialect, has_headers) ==
    LET unbound == FirstUnbound(DsvNames, DsvLocals)
    IN  IF unbound # "" THEN Raise(NameError(unbound))
        ELSE IF dialect \notin RegisteredDialects
             THEN Raise(Exc("csv.Error", "unknown dialect", dialect))
        ELSE IF c.fault # "none"
             THEN Raise(ParserFault(c, "csv.Error"))
        ELSE IF has_headers THEN Return(DictRows(c.rows))
        ELSE Return(PlainRows(c.rows))

(***************************************************************************)
(* load_data, lines 162-177: the data format detected from the file name.  *)
(* The if/elif chain is the ordered table; the first suffix that matches   *)
(* decides.  None: no suffix matches and line 177 raises.                  *)
(***************************************************************************)
SuffixTable ==
    << <<S_ini, F_ini>>, <<S_json, F_json>>, <<S_xml, F_xml>>,
       <<S_yaml, F_yaml>>, <<S_tsv, F_tsv>>, <<S_csv, F_csv>> >>

\* variant of DetectFormat: a name with no known suffix is taken as yaml
DetectFormatFallback(name) ==
    LET hits == {i \in 1..Len(SuffixTable) : EndsWith(name, SuffixTable[i][1])}
    IN  IF hits = {} THEN F_yaml
        ELSE SuffixTable[CHOOSE i \in hits : \A j \in hits : i <= j][2]

DetectFormat(name) ==
    LET hits == {i \in 1..Len(SuffixTable) : EndsWith(name, SuffixTable[i][1])}
    IN  IF hits = {} THEN None
        ELSE SuffixTable[CHOOSE i \in hits : \A j \in hits : i <= j][2]

NoDataFormat == Exc("Exception", "no data format;", None)
InvalidDataFormat(f) == Exc("Exception", "invalid data format: {};", f)

(***************************************************************************)
(* load_data, lines 179-197: the parser the format selects, with the       *)
(* dialect handed to load_data_dsv.  NoParser: line 197 raises.            *)
(***************************************************************************)
NoParser == [parser |-> "none", dialect |-> None]
Parser(p, d) == [parser |-> p, dialect |-> d]

\* variant of SelectParser: a format with a dot in it is taken as a
\* tabular dialect whatever its prefix, and the final else selects yaml
SelectParserLenient(f) ==
    IF f = F_ini THEN Parser("load_data_ini", None)
    ELSE IF f = F_json THEN Parser("load_data_json", None)
    ELSE IF f = F_xml THEN Parser("load_data_xml", None)
    ELSE IF f = F_tsv THEN Parser("load_data_dsv", F_tsv)
    ELSE IF f = F_csv THEN Parser("load_data_dsv", F_csv)
    ELSE IF \E i \in 1..Len(f) : f[i] = "."
         THEN Parser("load_data_dsv", PartitionTail(f, "."))
    ELSE Parser("load_data_yaml", None)

SelectParser(f) ==
    IF f = F_ini THEN Parser("load_data_ini", None)
    ELSE IF f = F_json THEN Parser("load_data_json", None)
    ELSE IF f = F_xml THEN Parser("load_data_xml", None)
    ELSE IF f = F_yaml THEN Parser("load_data_yaml", None)
    ELSE IF f = F_tsv THEN Parser("load_data_dsv", F_tsv)
    ELSE IF f = F_csv THEN Parser("load_data_dsv", F_csv)
    ELSE IF StartsWith(f, P_csv) THEN Parser("load_data_dsv", PartitionTail(f, "."))
    ELSE NoParser

\* the call of the selected parser on what the stream holds
Invoke(sel, c) ==
    IF sel.parser = "load_data_ini" THEN load_data_ini(c)
    ELSE IF sel.parser = "load_data_json" THEN load_data_json(c)
    ELSE IF sel.parser = "load_data_xml" THEN load_data_xml(c)
    ELSE IF sel.parser = "load_data_yaml" THEN load_data_yaml(c)
    ELSE load_data_dsv(c, sel.dialect, TRUE)

\* variant of ParseStep: a parser's exception is caught and the data left
\* empty
ParseStepSwallow(f, c) ==
    LET sel == SelectParser(f)
    IN  IF sel = NoParser THEN Raise(InvalidDataFormat(f))
        ELSE IF Invoke(sel, c).raised THEN Return(EmptyDict)
        ELSE Invoke(sel, c)

\* lines 179-197 as a whole: the parser's result, or its exception passed
\* on unchanged (the try has no except clause), or line 197's exception
ParseStep(f, c) ==
    LET sel == SelectParser(f)
    IN  IF sel = NoParser THEN Raise(InvalidDataFormat(f)) ELSE Invoke(sel, c)

(***************************************************************************)
(* load_data, lines 207-217: the normalisation of a non-mapping result     *)
(* and the merge of the command line's definitions.                        *)
(***************************************************************************)
IsMapping(v) == v.tag = "map"

Normalize(v) == IF IsMapping(v) THEN v ELSE VMap("data" :> v)

\* dict.update with a list of [key, value] pairs: applied in order
RECURSIVE Update(_, _)
Update(f, pairs) ==
    IF pairs = <<>> THEN f
    ELSE Update((pairs[1][1] :> VStr(pairs[1][2])) @@ f, Tail(pairs))

Merge(d, defs) == IF defs = None THEN d ELSE VMap(Update(d.val, defs))

\* the global names lines 207-215 evaluate: collections (207), logging (210)
TailNames(v) == IF IsMapping(v) THEN <<"collections">> ELSE <<"collections", "logging">>

LoadDataTail(v, defs) ==
    LET unbound == FirstUnbound(TailNames(v), {"data", "defines", "top_key", "msg"})
    IN  IF unbound # "" THEN Raise(NameError(unbound))
        ELSE Return(Merge(Normalize(v), defs))

(***************************************************************************)
(* The inputs of a run.                                                    *)
(***************************************************************************)
SeqsUpTo(S, n) == UNION {[1..m -> S] : m \in 0..n}

Stem == <<"a">>

\* data file names: one per known suffix, and names that match none or
\* that hold one suffix and end with another
FileNames ==
    {Stem \o SuffixTable[i][1] : i \in 1..Len(SuffixTable)}
    \cup {S_ini,
          Stem \o <<".", "J", "S", "O", "N">>,
          Stem \o <<".", "y", "m", "l">>,
          Stem \o S_csv \o S_json,
          F_json}

DataNames == {None, Dash} \cup FileNames

\* values of -f: absent, the six formats, csv dialects, unknown names
Formats ==
    {None, F_ini, F_json, F_xml, F_yaml, F_tsv, F_csv,
     P_csv \o <<"e", "x", "c", "e", "l">>,
     P_csv \o <<"a", ".", "b">>,
     P_csv,
     <<"f", "r", "o", "b">>,
     <<"J", "S", "O", "N">>,
     <<>>,
     F_tsv \o <<".", "x">>}

\* values of -D: absent (None), or the list of the pairs given
DefinePairs == {<<"k", "1">>, <<"k", "2">>, <<"data", "9">>}
Defines == {None} \cup (SeqsUpTo(DefinePairs, MaxDefines) \ {<<>>})

TemplateNames == {None, Dash, <<"t">>}
OutputNames == {None, Dash, <<"o">>}

DocValues ==
    {VMap("k" :> VStr("v")), VMap("data" :> VStr("v")), EmptyDict,
     VSeq(<<VStr("x")>>), VSeq(<<>>), VStr("s"), VNull}

Header == <<"a", "b">>
RowSet == {<<"1", "2">>, <<"3", "4">>}
Tables == {<<Header>> \o body : body \in SeqsUpTo(RowSet, MaxRows)}

Contents ==
    {Text("none", v, <<>>) : v \in DocValues}
    \cup {Text("none", VStr("text"), t) : t \in Tables}
    \cup {Text("syntax", VNull, <<>>), Text("io", VNull, <<>>)}

(***************************************************************************)
(* Streams.                                                                *)
(***************************************************************************)
\* variant of ReadAll: the read leaves the stream where it was
ReadNothing(s) == s

\* variant of Close: the stream is left open
CloseNot(f) == f

\* sys.stdin.read(): everything up to end of file
ReadAll(s) == [s EXCEPT !.pos = "eof"]

\* fin.close()
Close(f) == [f EXCEPT !.state = "closed"]

NoCall == [parser |-> "none", dialect |-> None, input |-> EmptyContent]

TemplateError == Exc("jinja2.TemplateError", "template", None)
OpenError == Exc("OSError", "open failed", None)
WriteError == Exc("OSError", "write failed", None)

\* template.render(data): the text is a function of the context
Render(ctx) == [tag |-> "text", val |-> ctx]

Init ==
    /\ pc = "template"
    /\ args \in [template : TemplateNames, output : OutputNames,
                  data : DataNames, format : Formats, define : Defines]
    /\ stdin = [pos |-> "start", closed |-> FALSE]
    /\ template = "none"
    /\ fname = None
    /\ fmt = None
    /\ defines = None
    /\ fin = [src |-> "none", state |-> "unopened", acquired |-> 0]
    /\ call = NoCall
    /\ data = NoValue
    /\ context = NoValue
    /\ exc = NoExc
    /\ rendered = NoText
    /\ fout = [state |-> "unopened", writes |-> <<>>]

(***************************************************************************)
(* main, lines 297-309: the template is loaded; a template on standard     *)
(* input is read to the end before it is compiled.                         *)
(***************************************************************************)
LoadTemplate ==
    /\ pc = "template"
    /\ \E ok \in BOOLEAN :
        /\ stdin' = IF args.template \in {None, Dash} THEN ReadAll(stdin) ELSE stdin
        /\ IF ok
           THEN /\ template' = "loaded"
                /\ pc' = "load_data"
                /\ exc' = exc
           ELSE /\ template' = template
                /\ pc' = "failed"
                /\ exc' = TemplateError
    /\ UNCHANGED <<args, fname, fmt, defines, fin, call, data, context,
                   rendered, fout>>

(***************************************************************************)
(* main line 312 and load_data lines 152-159: the call, and the data       *)
(* stream acquired.  open() fails when the file cannot be opened.          *)
(***************************************************************************)
LoadDataOpen ==
    /\ pc = "load_data"
    /\ fname' = args.data
    /\ fmt' = args.format
    /\ defines' = args.define
    /\ data' = EmptyDict
    /\ \E exists \in BOOLEAN :
           IF args.data = None
           THEN /\ pc' = "after_finally"
                /\ UNCHANGED <<fin, exc>>
           ELSE IF args.data = Dash
           THEN /\ fin' = [src |-> "stdin", state |-> "open",
                           acquired |-> fin.acquired + 1]
                /\ pc' = "detect"
                /\ exc' = exc
           ELSE IF exists
           THEN /\ fin' = [src |-> "file", state |-> "open",
                           acquired |-> fin.acquired + 1]
                /\ pc' = "detect"
                /\ exc' = exc
           ELSE /\ pc' = "failed"
                /\ exc' = OpenError
                /\ fin' = fin
    /\ UNCHANGED <<args, stdin, template, call, context, rendered, fout>>

(***************************************************************************)
(* load_data lines 162-177: the format detected when none was given.  An   *)
(* exception raised inside the try goes through the finally clause.        *)
(***************************************************************************)
Detect ==
    /\ pc = "detect"
    /\ IF fmt = None
       THEN LET d == DetectFormat(fname)
            IN  IF d = None
                THEN /\ exc' = NoDataFormat
                     /\ fmt' = fmt
                     /\ pc' = "finally"
                ELSE /\ fmt' = d
                     /\ exc' = exc
                     /\ pc' = "parse"
       ELSE /\ pc' = "parse"
            /\ UNCHANGED <<fmt, exc>>
    /\ UNCHANGED <<args, stdin, template, fname, defines, fin, call, data,
                   context, rendered, fout>>

\* whether the call of the selected parser gets as far as reading the stream
ReadsStream(sel) ==
    /\ sel # NoParser
    /\ sel.parser = "load_data_dsv" =>
         /\ FirstUnbound(DsvNames, DsvLocals) = ""
         /\ sel.dialect \in RegisteredDialects

(***************************************************************************)
(* load_data lines 179-197: the parser selected by fmt is called on the    *)
(* stream.  A parser that reads standard input leaves it at end of file.   *)
(***************************************************************************)
Parse ==
    /\ pc = "parse"
    /\ \E c \in Contents :
        LET seen == IF fin.src = "stdin" THEN Remaining(stdin.pos, c) ELSE c
            sel  == SelectParser(fmt)
            out  == ParseStep(fmt, seen)
        IN  /\ call' = IF sel = NoParser THEN call
                       ELSE [parser |-> sel.parser, dialect |-> sel.dialect,
                             input |-> seen]
            /\ data' = IF out.raised THEN data ELSE out.value
            /\ exc' = out.exc
            /\ stdin' = IF fin.src = "stdin" /\ ReadsStream(sel)
                        THEN ReadAll(stdin) ELSE stdin
    /\ pc' = "finally"
    /\ UNCHANGED <<args, template, fname, fmt, defines, fin, context,
                   rendered, fout>>

(***************************************************************************)
(* load_data lines 199-200: the stream is closed, and an exception in      *)
(* flight goes on out of load_data and main.                               *)
(***************************************************************************)
AfterFinally(e) == IF e # NoExc THEN "failed" ELSE "after_finally"

Finally ==
    /\ pc = "finally"
    /\ fin' = Close(fin)
    /\ stdin' = IF fin.src = "stdin" THEN [stdin EXCEPT !.closed = TRUE] ELSE stdin
    /\ pc' = AfterFinally(exc)
    /\ UNCHANGED <<args, template, fname, fmt, defines, call, data, context,
                   exc, rendered, fout>>

(***************************************************************************)
(* The straight-line rest of the run: load_data lines 207-217 (normalise,  *)
(* merge, return), then main lines 315-325 (render, open the output,       *)
(* write, close).  One step per statement; an exception ends the run,      *)
(* except that a failed write still goes through the finally of line 324.  *)
(* As the source stands line 207 raises, so the steps after it are the     *)
(* code the run would execute and never does.                              *)
(***************************************************************************)
\* variant of AfterLoadData: the run goes on to render whatever load_data did
AfterLoadDataSwallow(out) == "render"

\* main line 312: main has no handler, an exception out of load_data ends it
AfterLoadData(out) == IF out.raised THEN "failed" ELSE "render"

Continue ==
    /\ pc \in {"after_finally", "render", "open_output", "write", "close_output"}
    /\ CASE pc = "after_finally" ->
              LET out == LoadDataTail(data, defines)
              IN  /\ context' = out.value
                  /\ exc' = out.exc
                  /\ pc' = AfterLoadData(out)
                  /\ UNCHANGED <<rendered, fout>>
         [] pc = "render" ->
              \E ok \in BOOLEAN :
                 IF ok
                 THEN /\ rendered' = Render(context)
                      /\ pc' = "open_output"
                      /\ UNCHANGED <<context, exc, fout>>
                 ELSE /\ exc' = TemplateError
                      /\ pc' = "failed"
                      /\ UNCHANGED <<context, rendered, fout>>
         [] pc = "open_output" ->
              \E ok \in BOOLEAN :
                 IF ok \/ args.output \in {None, Dash}
                 THEN /\ fout' = [fout EXCEPT !.state = "open"]
                      /\ pc' = "write"
                      /\ UNCHANGED <<context, exc, rendered>>
                 ELSE /\ exc' = OpenError
                      /\ pc' = "failed"
                      /\ UNCHANGED <<context, rendered, fout>>
         [] pc = "write" ->
              \E ok \in BOOLEAN :
                 /\ fout' = IF ok THEN [fout EXCEPT !.writes = Append(@, rendered)]
                            ELSE fout
                 /\ exc' = IF ok THEN exc ELSE WriteError
                 /\ pc' = "close_output"
                 /\ UNCHANGED <<context, rendered>>
         [] pc = "close_output" ->
              /\ fout' = [fout EXCEPT !.state = "closed"]
              /\ pc' = IF exc # NoExc THEN "failed" ELSE "done"
              /\ UNCHANGED <<context, exc, rendered>>
    /\ UNCHANGED <<args, stdin, template, fname, fmt, defines, fin, call, data>>

Next ==
    \/ LoadTemplate
    \/ LoadDataOpen
    \/ Detect
    \/ Parse
    \/ Finally
    \/ Continue

Spec == Init /\ [][Next]_vars

(***************************************************************************)
(* Properties.                                                             *)
(***************************************************************************)
\* the positions at which the format detection of lines 162-177 has run
Detected == pc \in {"parse", "finally"} \/ (pc \notin {"template", "load_data", "detect"} /\ fin.state = "closed")

\* the positions at which lines 179-197 have run or were skipped by a raise
TryLeft == pc = "finally" \/ (pc \notin {"template", "load_data", "detect", "parse"} /\ fin.state = "closed")

SixFormats == {F_ini, F_json, F_xml, F_yaml, F_tsv, F_csv}

\* C1: with no explicit format and a data file named, once the detection
\* has run the format is the one the file name's suffix names (.ini, .json,
\* .xml, .yaml, .tsv, .csv, matched exactly), and a name with none of these
\* suffixes ends the load with the "no data format" exception, no parser
\* called and no format chosen.
C1_SuffixResolution ==
    (args.format = None /\ fin.acquired > 0 /\ Detected) =>
        /\ EndsWith(fname, S_ini)  => fmt = F_ini
        /\ EndsWith(fname, S_json) => fmt = F_json
        /\ EndsWith(fname, S_xml)  => fmt = F_xml
        /\ EndsWith(fname, S_yaml) => fmt = F_yaml
        /\ EndsWith(fname, S_tsv)  => fmt = F_tsv
        /\ EndsWith(fname, S_csv)  => fmt = F_csv
        /\ fname = Stem \o S_csv \o S_json => fmt = F_json
        /\ (\A i \in 1..Len(SuffixTable) : ~EndsWith(fname, SuffixTable[i][1])) =>
              /\ fmt = None
              /\ exc = NoDataFormat
              /\ call = NoCall
              /\ context = NoValue
        /\ fname \in {Dash, F_json, Stem \o <<".", "J", "S", "O", "N">>,
                      Stem \o <<".", "y", "m", "l">>} => exc = NoDataFormat

C1_Witness ==
    /\ args.format = None
    /\ fname = Stem \o S_tsv
    /\ fmt = F_tsv
    /\ pc = "parse"

C3_ExplicitFormatDecides ==
    (args.format # None /\ fin.acquired > 0) =>
        /\ fmt = args.format
        /\ (TryLeft /\ (args.format \in SixFormats \/ StartsWith(args.format, P_csv)))
              => call # NoCall
        /\ call # NoCall =>
              /\ args.format = F_ini  => call.parser = "load_data_ini"
              /\ args.format = F_json => call.parser = "load_data_json"
              /\ args.format = F_xml  => call.parser = "load_data_xml"
              /\ args.format = F_yaml => call.parser = "load_data_yaml"
              /\ args.format = F_tsv  =>
                    call.parser = "load_data_dsv" /\ call.dialect = F_tsv
              /\ args.format = F_csv  =>
                    call.parser = "load_data_dsv" /\ call.dialect = F_csv
              /\ StartsWith(args.format, P_csv) =>
                    /\ call.parser = "load_data_dsv"
                    /\ call.dialect = SubSeq(args.format, Len(P_csv) + 1,
                                             Len(args.format))

C3_Witness ==
    /\ args.format = P_csv \o <<"a", ".", "b">>
    /\ fname = Stem \o S_json
    /\ call.parser = "load_data_dsv"
    /\ call.dialect = <<"a", ".", "b">>

\* the positions after the try statement of load_data (lines 161-200)
TryExited == pc \in {"after_finally", "render", "open_output", "write",
                     "close_output", "done"}
                \/ (pc = "failed" /\ fin.acquired > 0)

\* C4: the normalisation never fails and hands on a mapping: a run at the
\* statement after the try leaves it with no exception and a mapping as
\* context; with no definitions to merge the context is the parsed value
\* itself when that is a mapping and {"data": value} otherwise.
C4_NormalizationTotal ==
    [][pc = "after_finally" =>
          /\ exc' = NoExc
          /\ pc' # "failed"
          /\ IsMapping(context')
          /\ defines = None =>
                context' = IF data.tag = "map" THEN data
                           ELSE [tag |-> "map", val |-> [k \in {"data"} |-> data]]]_vars

\* C5: the definitions are merged after the normalisation, in order: the
\* context returned has the keys of the normalised data and of the
\* definitions and no others, a key that is defined maps to the string of
\* its last definition, and every other key keeps the data's value; with
\* no definitions the normalised data is returned as it is.
C5_MergePrecedence ==
    [][pc = "after_finally" =>
          LET norm == IF data.tag = "map" THEN data.val ELSE [k \in {"data"} |-> data]
              defs == IF defines = None THEN <<>> ELSE defines
              keys == {defs[i][1] : i \in 1..Len(defs)}
              last(k) == CHOOSE i \in 1..Len(defs) :
                            /\ defs[i][1] = k
                            /\ \A j \in 1..Len(defs) : defs[j][1] = k => j <= i
          IN  /\ exc' = NoExc
              /\ context'.tag = "map"
              /\ DOMAIN context'.val = DOMAIN norm \cup keys
              /\ \A k \in keys : context'.val[k] = [tag |-> "str", val |-> defs[last(k)][2]]
              /\ \A k \in DOMAIN norm \ keys : context'.val[k] = norm[k]]_vars

\* C6: a run that acquired a data stream has closed it once it is past the
\* try statement, whether the format detection failed, the format was
\* invalid, the parser failed or the parser returned; standard input taken
\* as the data stream is closed with it; at most one data stream is
\* acquired.
C6_StreamReleased ==
    /\ fin.acquired <= 1
    /\ fin.acquired = 0 <=> fin.state = "unopened"
    /\ (TryExited /\ fin.acquired > 0) =>
          /\ fin.state = "closed"
          /\ fin.src = "stdin" => stdin.closed

C6_Witness ==
    /\ pc = "failed"
    /\ fin.src = "file"
    /\ fin.state = "closed"
    /\ call.parser = "load_data_json"
    /\ exc.type = "json.JSONDecodeError"

\* C7: the output is opened only after the template was loaded, load_data
\* returned a context and the rendering returned its text; a run that
\* failed in the format detection, the parser or the rendering has not
\* opened the output and has written nothing; what is written is the
\* rendered text, in one write, and the output opened is closed when the
\* run ends, a failed write included.
C7_NoPartialOutput ==
    /\ fout.state # "unopened" =>
          /\ template = "loaded"
          /\ context # NoValue
          /\ rendered = Render(context)
    /\ fout.writes \in {<<>>, <<rendered>>}
    /\ fout.state = "unopened" => fout.writes = <<>>
    /\ pc = "done" => fout.state = "closed" /\ fout.writes = <<rendered>>
    /\ pc = "failed" =>
          /\ fout.state \in {"unopened", "closed"}
          /\ fout.state = "closed" => exc = WriteError /\ fout.writes = <<>>
          /\ exc \in {NoDataFormat, InvalidDataFormat(fmt), TemplateError}
                => fout.state = "unopened"
          /\ (call # NoCall /\ context = NoValue) => fout.state = "unopened"

C7_Witness ==
    /\ pc = "failed"
    /\ template = "loaded"
    /\ call.parser = "load_data_yaml"
    /\ exc.type = "yaml.YAMLError"
    /\ fout.state = "unopened"
    /\ fout.writes = <<>>

\* the parser call made, as a selection
CallSel == [parser |-> call.parser, dialect |-> call.dialect]

\* a parser was called and raised
ParserFailed == call # NoCall /\ TryLeft /\ Invoke(CallSel, call.input).raised

\* C8 as stated: a parser failure leaves load_data as a DataError that
\* carries the resolved format.
C8_DataErrorWithFormat ==
    ParserFailed => exc.type = "DataError" /\ exc.arg = fmt

\* C8 as amended: a parser failure leaves load_data as the exception the
\* parser raised, unchanged and with no format attached; it is terminal:
\* the run goes from the finally clause to its end, with no second parser
\* call, no context, nothing rendered and the output unopened.
C8_ParserErrorPropagates ==
    ParserFailed =>
        /\ exc = Invoke(CallSel, call.input).exc
        /\ exc # NoExc
        /\ exc.type # "DataError"
        /\ exc.arg # fmt
        /\ pc \in {"finally", "failed"}
        /\ context = NoValue
        /\ rendered = NoText
        /\ fout.state = "unopened"

C8_Witness ==
    /\ pc = "failed"
    /\ fmt = F_json
    /\ call.parser = "load_data_json"
    /\ call.input.fault = "syntax"
    /\ exc = Exc("json.JSONDecodeError", "malformed input", None)

\* C9: for the format csv or tsv and a well-formed input whose first row
\* is a header, the tabular parser returns one mapping per later row, in
\* row order, from the header's field names to that row's strings.
C9_TabularRows ==
    [][(/\ pc = "parse"
        /\ fmt \in {F_csv, F_tsv}
        /\ call'.input.kind = "text"
        /\ call'.input.fault = "none"
        /\ call'.input.rows # <<>>) =>
          LET rows == call'.input.rows
          IN  /\ exc' = NoExc
              /\ data'.tag = "seq"
              /\ Len(data'.val) = Len(rows) - 1
              /\ \A i \in 1..(Len(rows) - 1) :
                    /\ data'.val[i].tag = "map"
                    /\ DOMAIN data'.val[i].val = {rows[1][j] : j \in 1..Len(rows[1])}
                    /\ \A j \in 1..Len(rows[1]) :
                          data'.val[i].val[rows[1][j]] =
                              [tag |-> "str", val |-> rows[i + 1][j]]]_vars

\* C10: the template is loaded before the data stream is acquired, so a
\* run whose template failed has opened no data stream; with the template
\* and the data both on standard input the parser is called on a stream
\* already at end of file; standard input taken as the data stream is
\* closed by load_data.
C10_TemplateBeforeData ==
    /\ fin.acquired > 0 => template = "loaded"
    /\ template = "none" => fin.state = "unopened" /\ call = NoCall
    /\ (args.template \in {None, Dash} /\ args.data = Dash /\ call # NoCall) =>
          /\ call.input = EmptyContent
          /\ stdin.pos = "eof"
    /\ (args.template \in {None, Dash} /\ template = "loaded") => stdin.pos = "eof"
    /\ (args.data = Dash /\ TryExited) => stdin.closed
    /\ stdin.closed => template = "loaded" /\ args.data = Dash

C10_Witness ==
    /\ args.template = None
    /\ args.data = Dash
    /\ call.parser = "load_data_json"
    /\ call.input = EmptyContent
    /\ stdin.closed
    /\ pc = "failed"

====
